---- MODULE Spec2Model ----
(***************************************************************************)
(* A model of src/languageservice/parser/yamlParser.ts: parse(), its       *)
(* per-document createJSONDocument() and the recursive AST builder         *)
(* recursivelyBuildAst().                                                  *)
(*                                                                         *)
(* The YAML tokenizer (yaml-ast-parser) is a collaborator: what it         *)
(* delivers for a text (raw node trees, diagnostics, the scalar type       *)
(* determineScalarType reports) is an input here, drawn from bounded sets. *)
(* Raw nodes are heap objects that refer to each other (an anchor          *)
(* reference holds the node it resolves to, which may enclose it), so a    *)
(* raw document is an arena: a sequence of node records addressed by       *)
(* index, 0 standing for null/undefined.  The AST is an arena in the same  *)
(* way, so that a node's parent reference is an identity, not a copy.      *)
(* A raw node's `value` is its text; the node a mapping's `value` holds is *)
(* field valueRef, the node an alias's `value` holds is field target.      *)
(***************************************************************************)
EXTENDS Integers, Sequences, FiniteSets, TLC

VARIABLES
    text,       \* parse's argument, a sequence of one-character strings
    pending,    \* documents loadAll has still to hand to the callback
    delivered,  \* history: every document loadAll handed over, in order
    yamlDocs,   \* parse's local array, filled by the callback (line 172)
    result,     \* the documents yamlDocs.map(createJSONDocument) has built
    pc          \* "loadAll" | "map" | "returned" | "threw"

vars == <<text, pending, delivered, yamlDocs, result, pc>>

(***************************************************************************)
(* Bounds of the model.                                                    *)
(***************************************************************************)
MaxDepth == 2       \* nesting of collections inside collections
MaxItems == 2       \* items of a raw sequence
MaxMappings == 2    \* mapping entries of a raw map
MaxBack == 3        \* how far back (in node indices) an alias may point
MaxErrs == 2        \* raw diagnostics of one document
MaxDocs == 2        \* documents of one stream

\* The call stack is finite: a recursion deeper than this ends the call with
\* a RangeError.  It exceeds the recursion depth of every acyclic document of
\* the model (a collection and a mapping per level, an alias and its target).
StackLimit == 2 * MaxDepth + 4

Absent == 0         \* null / undefined: no node
Undefined == -1     \* an argument the call site leaves out

(***************************************************************************)
(* Raw documents, as the collaborator builds them.  A shape is a raw       *)
(* document without positions and indices; Layout numbers its nodes in     *)
(* preorder and gives them nested source spans.                            *)
(***************************************************************************)
ScalarTypes == {"null", "bool", "int", "float", "string"}

NullShape == [kind |-> "NULL"]

ScalarShape(v, p, t) ==
    [kind |-> "SCALAR", value |-> v, plainScalar |-> p, scalarType |-> t]

\* Scalar texts of top-level scalars: the sixteen YAML 1.1 boolean tokens and
\* texts that are none of them.
ScalarTexts ==
    {"y", "Y", "yes", "Yes", "YES", "n", "N", "no", "No", "NO",
     "on", "On", "ON", "off", "Off", "OFF",
     "true", "yEs", "1", "abc", ""}

TopScalarShapes ==
    {ScalarShape(v, p, t) : v \in ScalarTexts, p \in BOOLEAN, t \in ScalarTypes}

\* An alias `back` nodes before itself in preorder (an enclosing collection,
\* an earlier sibling); back = 0 is an alias the collaborator left unresolved.
AnchorShapes == {[kind |-> "ANCHOR_REF", back |-> b] : b \in 0..MaxBack}

LeafShapes ==
    {ScalarShape("yes", TRUE, "string"), ScalarShape("no", FALSE, "string"),
     ScalarShape("1", TRUE, "int")}
    \cup AnchorShapes
    \cup {[kind |-> "INCLUDE_REF", value |-> "inc.yaml"]}

\* What stands before the last child of a collection.
FillerShapes == {NullShape, ScalarShape("1", TRUE, "int")}

Fillers(n) == UNION {[1..k -> FillerShapes] : k \in 0..n}

KeyKinds == {"SCALAR", "SEQ"}

KeyTexts == <<"a", "b", "c", "d", "e">>

MappingShape(i, kk, v) ==
    [kind |-> "MAPPING", key |-> [kind |-> kk, value |-> KeyTexts[i]], value |-> v]

RECURSIVE Shapes(_)
Shapes(d) ==
    IF d = 0 THEN LeafShapes
    ELSE LET Inner == Shapes(d - 1) \cup {NullShape}
         IN  LeafShapes
             \cup {[kind |-> "SEQ", items |-> <<>>], [kind |-> "MAP", mappings |-> <<>>]}
             \cup {[kind |-> "SEQ", items |-> Append(pre, last)] :
                      pre \in Fillers(MaxItems - 1), last \in Inner}
             \cup {[kind |-> "MAP",
                    mappings |-> Append([i \in 1..Len(pre) |-> MappingShape(i, "SCALAR", pre[i])],
                                        MappingShape(Len(pre) + 1, kk, last))] :
                      pre \in Fillers(MaxMappings - 1), kk \in KeyKinds, last \in Inner}

RECURSIVE Layout(_, _, _)
RECURSIVE LayoutItems(_, _, _, _)
Layout(shape, id, pos) ==
    CASE shape.kind = "SCALAR" ->
            [nodes |-> <<[kind |-> "SCALAR", startPosition |-> pos, endPosition |-> pos + 1,
                          value |-> shape.value, plainScalar |-> shape.plainScalar,
                          scalarType |-> shape.scalarType]>>,
             end |-> pos + 1]
      [] shape.kind = "INCLUDE_REF" ->
            [nodes |-> <<[kind |-> "INCLUDE_REF", startPosition |-> pos, endPosition |-> pos + 1,
                          value |-> shape.value]>>,
             end |-> pos + 1]
      [] shape.kind = "OTHER" ->
            [nodes |-> <<[kind |-> "OTHER", startPosition |-> pos, endPosition |-> pos + 1]>>,
             end |-> pos + 1]
      [] shape.kind = "ANCHOR_REF" ->
            [nodes |-> <<[kind |-> "ANCHOR_REF", startPosition |-> pos, endPosition |-> pos + 1,
                          target |-> IF shape.back = 0 THEN Absent ELSE id - shape.back]>>,
             end |-> pos + 1]
      [] shape.kind = "SEQ" ->
            LET c == LayoutItems(shape.items, 1, id + 1, pos + 1)
            IN  [nodes |-> <<[kind |-> "SEQ", startPosition |-> pos, endPosition |-> c.end + 1,
                              items |-> c.ids]>> \o c.nodes,
                 end |-> c.end + 1]
      [] shape.kind = "MAP" ->
            LET c == LayoutItems(shape.mappings, 1, id + 1, pos + 1)
            IN  [nodes |-> <<[kind |-> "MAP", startPosition |-> pos, endPosition |-> c.end + 1,
                              mappings |-> c.ids]>> \o c.nodes,
                 end |-> c.end + 1]
      [] shape.kind = "MAPPING" ->
            LET key == [kind |-> shape.key.kind, startPosition |-> pos, endPosition |-> pos + 1,
                        value |-> shape.key.value]
            IN  IF shape.value = NullShape
                THEN [nodes |-> <<[kind |-> "MAPPING", startPosition |-> pos, endPosition |-> pos + 2,
                                   key |-> key, valueRef |-> Absent]>>,
                      end |-> pos + 2]
                ELSE LET c == Layout(shape.value, id + 1, pos + 2)
                     IN  [nodes |-> <<[kind |-> "MAPPING", startPosition |-> pos, endPosition |-> c.end,
                                       key |-> key, valueRef |-> id + 1]>> \o c.nodes,
                          end |-> c.end]

LayoutItems(items, i, nextId, pos) ==
    IF i > Len(items) THEN [nodes |-> <<>>, ids |-> <<>>, end |-> pos]
    ELSE IF items[i] = NullShape
    THEN LET rest == LayoutItems(items, i + 1, nextId, pos + 1)
         IN  [nodes |-> rest.nodes, ids |-> <<Absent>> \o rest.ids, end |-> rest.end]
    ELSE LET c == Layout(items[i], nextId, pos)
             rest == LayoutItems(items, i + 1, nextId + Len(c.nodes), c.end + 1)
         IN  [nodes |-> c.nodes \o rest.nodes, ids |-> <<nextId>> \o rest.ids, end |-> rest.end]

\* An alias resolves to nothing or to a node that can carry an anchor.
WellFormed(nodes) ==
    \A i \in 1..Len(nodes) :
        nodes[i].kind = "ANCHOR_REF" /\ nodes[i].target # Absent
            => /\ nodes[i].target \in 1..Len(nodes)
               /\ nodes[nodes[i].target].kind \in {"MAP", "SEQ", "SCALAR"}

\* The raw document the collaborator delivers: its top-level node is nodes[1],
\* and the document carries its own diagnostic list.
RawDoc(shape, pos, errors) == [nodes |-> Layout(shape, 1, pos).nodes, errors |-> errors]

(***************************************************************************)
(* AST nodes (jsonParser.ts): a constructor stores its arguments.  A node  *)
(* is a record of the AST arena; parent, keyNode, valueNode, properties    *)
(* and items hold arena indices.                                           *)
(***************************************************************************)
NoParent == 0       \* the null parent createJSONDocument passes (line 139)

ObjectASTNodeImpl(parent, offset, length) ==
    [type |-> "object", parent |-> parent, offset |-> offset, length |-> length,
     properties |-> <<>>]

PropertyASTNodeImpl(parent, offset, length) ==
    [type |-> "property", parent |-> parent, offset |-> offset, length |-> length,
     keyNode |-> Absent, valueNode |-> Absent]

ArrayASTNodeImpl(parent, offset, length) ==
    [type |-> "array", parent |-> parent, offset |-> offset, length |-> length,
     items |-> <<>>]

StringASTNodeImpl(parent, offset, length) ==
    [type |-> "string", parent |-> parent, offset |-> offset, length |-> length,
     value |-> ""]

NumberASTNodeImpl(parent, offset, length) ==
    [type |-> "number", parent |-> parent, offset |-> offset, length |-> length,
     isInteger |-> FALSE]

BooleanASTNodeImpl(parent, offset, length) ==
    [type |-> "boolean", parent |-> parent, offset |-> offset, length |-> length]

NullASTNodeImpl(parent, offset, length) ==
    [type |-> "null", parent |-> parent, offset |-> offset, length |-> length]

(***************************************************************************)
(* recursivelyBuildAst (lines 20-131).  It returns the arena with the      *)
(* nodes it constructed added, and the index of the node it returns        *)
(* (Absent for undefined).  overflow: the recursion exhausted the stack.   *)
(***************************************************************************)
Ret(ast, n) == [ast |-> ast, node |-> n, overflow |-> FALSE]

StackOverflow == [ast |-> <<>>, node |-> Absent, overflow |-> TRUE]

\* `new X(...)` : the node is allocated at the end of the arena.
New(ast, n) == Ret(Append(ast, n), Len(ast) + 1)

Span(node) == node.endPosition - node.startPosition

\* the list one token short
possibleBooleanValues_NoUpperOff ==
    <<"y", "Y", "yes", "Yes", "YES", "n", "N", "no", "No", "NO",
      "on", "On", "ON", "off", "Off">>

possibleBooleanValues ==
    <<"y", "Y", "yes", "Yes", "YES", "n", "N", "no", "No", "NO",
      "on", "On", "ON", "off", "Off", "OFF">>

\* indexOf(x) !== -1
Includes(seq, x) == \E i \in 1..Len(seq) : seq[i] = x

\* case Yaml.Kind.SCALAR
BuildScalar(ast, parent, node) ==
    IF node.plainScalar /\ Includes(possibleBooleanValues, node.value)
    THEN New(ast, BooleanASTNodeImpl(parent, node.startPosition, Span(node)))
    ELSE CASE node.scalarType = "null" ->
                New(ast, NullASTNodeImpl(parent, node.startPosition, Span(node)))
           [] node.scalarType = "bool" ->
                New(ast, BooleanASTNodeImpl(parent, node.startPosition, Span(node)))
           [] node.scalarType = "int" ->
                New(ast, [NumberASTNodeImpl(parent, node.startPosition, Span(node))
                            EXCEPT !.isInteger = TRUE])
           [] node.scalarType = "float" ->
                New(ast, [NumberASTNodeImpl(parent, node.startPosition, Span(node))
                            EXCEPT !.isInteger = FALSE])
           [] node.scalarType = "string" ->
                New(ast, [StringASTNodeImpl(parent, node.startPosition, Span(node))
                            EXCEPT !.value = node.value])
           [] OTHER -> Ret(ast, Absent)

\* result.properties.unshift(p)
PushProperty_Front(ast, r, p) == [ast EXCEPT ![r].properties = <<p>> \o @]

\* result.properties.push(p)
PushProperty(ast, r, p) == [ast EXCEPT ![r].properties = Append(@, p)]

\* result.items.push(itemNode)
PushItem(ast, r, n) == [ast EXCEPT ![r].items = Append(@, n)]

RECURSIVE recursivelyBuildAst(_, _, _, _, _)
RECURSIVE BuildProperties(_, _, _, _, _, _)
RECURSIVE BuildItems(_, _, _, _, _, _, _, _)

\* nodes: the raw arena; ast: the AST arena so far; id: the raw node (Absent
\* for a null argument); depth: the frames of recursivelyBuildAst on the stack.
recursivelyBuildAst(nodes, ast, parent, id, depth) ==
    IF depth > StackLimit THEN StackOverflow
    ELSE IF id = Absent THEN Ret(ast, Absent)
    ELSE LET node == nodes[id] IN
      CASE node.kind = "MAP" ->
              LET o == New(ast, ObjectASTNodeImpl(parent, node.startPosition, Span(node)))
              IN  BuildProperties(nodes, o.ast, o.node, node.mappings, 1, depth)
        [] node.kind = "MAPPING" ->
              LET key == node.key
                  p == New(ast, PropertyASTNodeImpl(parent, key.startPosition,
                                                    node.endPosition - key.startPosition))
                  k == New(p.ast, [StringASTNodeImpl(p.node, key.startPosition, Span(key))
                                     EXCEPT !.value = key.value])
                  v == IF node.valueRef # Absent
                       THEN recursivelyBuildAst(nodes, k.ast, p.node, node.valueRef, depth + 1)
                       ELSE New(k.ast, NullASTNodeImpl(parent, node.startPosition, Undefined))
              IN  IF v.overflow THEN StackOverflow
                  ELSE Ret([v.ast EXCEPT ![p.node].keyNode = k.node,
                                         ![p.node].valueNode = v.node], p.node)
        [] node.kind = "SEQ" ->
              LET a == New(ast, ArrayASTNodeImpl(parent, node.startPosition, Span(node)))
              IN  BuildItems(nodes, a.ast, parent, a.node, node, 1, 0, depth)
        [] node.kind = "SCALAR" -> BuildScalar(ast, parent, node)
        [] node.kind = "ANCHOR_REF" ->
              LET t == recursivelyBuildAst(nodes, ast, parent, node.target, depth + 1)
              IN  IF t.overflow THEN StackOverflow
                  ELSE IF t.node # Absent THEN t
                  ELSE New(t.ast, NullASTNodeImpl(parent, node.startPosition, Span(node)))
        [] node.kind = "INCLUDE_REF" ->
              New(ast, [StringASTNodeImpl(parent, node.startPosition, Span(node))
                          EXCEPT !.value = node.value])
        [] OTHER -> Ret(ast, Absent)

\* for (const mapping of instance.mappings) (lines 32-34), from the i-th on
BuildProperties(nodes, ast, r, mappings, i, depth) ==
    IF i > Len(mappings) THEN Ret(ast, r)
    ELSE LET c == recursivelyBuildAst(nodes, ast, r, mappings[i], depth + 1)
         IN  IF c.overflow THEN StackOverflow
             ELSE BuildProperties(nodes, PushProperty(c.ast, r, c.node), r, mappings, i + 1, depth)

\* for (const item of instance.items) (lines 62-73), from the i-th on.  count
\* is the loop's counter: line 62 sets it to 0 and no statement changes it.
BuildItems(nodes, ast, parent, r, instance, i, count, depth) ==
    IF i > Len(instance.items) THEN Ret(ast, r)
    ELSE LET item == instance.items[i] IN
         IF item = Absent /\ count = Len(instance.items) - 1 THEN Ret(ast, r)
         ELSE LET c == IF item = Absent
                       THEN New(ast, NullASTNodeImpl(parent, instance.startPosition, Span(instance)))
                       ELSE recursivelyBuildAst(nodes, ast, r, item, depth + 1)
              IN  IF c.overflow THEN StackOverflow
                  ELSE BuildItems(nodes, PushItem(c.ast, r, c.node), parent, r, instance,
                                  i + 1, count, depth)

(***************************************************************************)
(* Diagnostics (lines 133-162).  A raw diagnostic is                       *)
(* [reason, isWarning, mark |-> [position, column]].                       *)
(***************************************************************************)
duplicateKeyReason == "duplicate key"

\* convertError (lines 133-135)
convertError(e) ==
    [message |-> e.reason,
     location |-> [start |-> e.mark.position,
                   end |-> e.mark.position + e.mark.column,
                   code |-> "ErrorCode.Undefined"]]

Min(a, b) == IF a < b THEN a ELSE b
Max(a, b) == IF a > b THEN a ELSE b

\* String.prototype.substring: both indices are clamped to [0, length] and
\* swapped when the first is the larger.  Offsets count from 0.
Substring(str, a, b) ==
    LET ca == Min(Max(a, 0), Len(str))
        cb == Min(Max(b, 0), Len(str))
    IN  SubSeq(str, Min(ca, cb) + 1, Max(ca, cb))

\* String.prototype.startsWith
StartsWith(str, prefix) ==
    Len(str) >= Len(prefix) /\ SubSeq(str, 1, Len(prefix)) = prefix

\* isDuplicateAndNotMergeKey (lines 149-157)
isDuplicateAndNotMergeKey(error, yamlText) ==
    LET errorConverted == convertError(error)
        errorStart == errorConverted.location.start
        errorEnd == errorConverted.location.end
    IN  ~(error.reason = duplicateKeyReason
          /\ StartsWith(Substring(yamlText, errorStart, errorEnd), <<"<", "<">>))

\* the filter of line 158 without its test of isWarning
IsError_IgnoringFlag(e) == e.reason # duplicateKeyReason

\* the filter of line 158
IsError(e) == e.reason # duplicateKeyReason /\ ~e.isWarning

\* the filter of line 159
IsWarning(e, yamlText) ==
    (e.reason = duplicateKeyReason /\ isDuplicateAndNotMergeKey(e, yamlText)) \/ e.isWarning

\* Array.prototype.filter (lines 158, 159), as the indices it keeps, in order
ErrorIndices(errors) ==
    SelectSeq([i \in 1..Len(errors) |-> i], LAMBDA i : IsError(errors[i]))

WarningIndices(errors, yamlText) ==
    SelectSeq([i \in 1..Len(errors) |-> i], LAMBDA i : IsWarning(errors[i], yamlText))

\* the error pushed at line 143
StructuralError(yamlDoc) ==
    [message |-> "Expected a YAML object, array or literal",
     code |-> "ErrorCode.Undefined",
     location |-> [start |-> yamlDoc.nodes[1].startPosition,
                   end |-> yamlDoc.nodes[1].endPosition]]

\* _doc.errors with the structural error pushed after the forwarded ones
DocErrors_StructuralLast(root, yamlDoc, errors) ==
    errors \o (IF root = Absent THEN <<StructuralError(yamlDoc)>> ELSE <<>>)

\* _doc.errors after lines 141-144 and 161
DocErrors(root, yamlDoc, errors) ==
    (IF root = Absent THEN <<StructuralError(yamlDoc)>> ELSE <<>>) \o errors

\* createJSONDocument (lines 137-165).  errorsFrom and warningsFrom are
\* history: the indices in yamlDoc.errors of the diagnostics that the two
\* filters kept.
createJSONDocument(yamlDoc, startPositions, yamlText) ==
    LET b == recursivelyBuildAst(yamlDoc.nodes, <<>>, NoParent, 1, 1)
        errorsFrom == ErrorIndices(yamlDoc.errors)
        warningsFrom == WarningIndices(yamlDoc.errors, yamlText)
        errors == [k \in 1..Len(errorsFrom) |-> convertError(yamlDoc.errors[errorsFrom[k]])]
        warnings == [k \in 1..Len(warningsFrom) |-> convertError(yamlDoc.errors[warningsFrom[k]])]
    IN  IF b.overflow THEN [threw |-> TRUE]
        ELSE [threw |-> FALSE,
              doc |-> [root |-> b.node, ast |-> b.ast, startPositions |-> startPositions,
                       errors |-> DocErrors(b.node, yamlDoc, errors),
                       warnings |-> warnings,
                       errorsFrom |-> errorsFrom, warningsFrom |-> warningsFrom]]

\* getLineStartPositions: offset 0 and the offset after every line break
getLineStartPositions(str) ==
    <<0>> \o SelectSeq([i \in 1..Len(str) |-> IF str[i] = "\n" THEN i ELSE -1],
                       LAMBDA x : x >= 0)

(***************************************************************************)
(* The inputs: what parse is called with and what the collaborator makes   *)
(* of it.                                                                  *)
(***************************************************************************)
\* "<<:\n  <<:" and "a:\n  a:", with the offsets at which a key starts
MergeText == <<"<", "<", ":", "\n", " ", " ", "<", "<", ":">>
PlainText == <<"a", ":", "\n", " ", " ", "a", ":">>

KeyOffsets(str) == IF str = MergeText THEN {0, 6} ELSE {0, 5}

\* A mark's column: its offset in its line.
Column(str, position) ==
    LET starts == getLineStartPositions(str)
        before == {starts[i] : i \in 1..Len(starts)} \cap 0..position
    IN  position - (CHOOSE m \in before : \A o \in before : o <= m)

RawErrors(str, positions) ==
    {[reason |-> r, isWarning |-> w, mark |-> [position |-> q, column |-> Column(str, q)]] :
        r \in {duplicateKeyReason, "bad indentation of a mapping entry"},
        w \in BOOLEAN, q \in positions}

SeqsUpTo(S, n) == UNION {[1..k -> S] : k \in 0..n}

TopShapes == TopScalarShapes \cup Shapes(MaxDepth) \cup {[kind |-> "OTHER"]}

\* Documents that exercise the builder: every shape, no diagnostics.
AstDocs == {d \in {RawDoc(sh, 0, <<>>) : sh \in TopShapes} : WellFormed(d.nodes)}

\* Documents that exercise the diagnostics: a root that resolves or one that
\* does not, and every list of diagnostics.
DiagDocs(str) ==
    {RawDoc(sh, 0, errs) : sh \in {ScalarShape("1", TRUE, "int"), [kind |-> "OTHER"]},
                           errs \in SeqsUpTo(RawErrors(str, KeyOffsets(str)), MaxErrs)}

\* The i-th document of a stream: it starts at its own offset and its
\* diagnostics point into its own text.
StreamDocs(str, i) ==
    LET pos == 5 * (i - 1)
    IN  {RawDoc(sh, pos, errs) :
            sh \in {[kind |-> "MAP", mappings |-> <<MappingShape(i, "SCALAR", ScalarShape("1", TRUE, "int"))>>],
                    [kind |-> "OTHER"]},
            errs \in {<<>>} \cup {<<e>> : e \in {x \in RawErrors(str, {pos}) : ~x.isWarning}}}

Streams(str) ==
    UNION {{s \in [1..k -> UNION {StreamDocs(str, i) : i \in 1..k}] :
                \A i \in 1..k : s[i] \in StreamDocs(str, i)} : k \in 0..MaxDocs}

Init ==
    /\ \/ text = PlainText /\ \E d \in AstDocs : pending = <<d>>
       \/ text \in {MergeText, PlainText} /\ \E d \in DiagDocs(text) : pending = <<d>>
       \/ text = PlainText /\ pending \in Streams(text)
    /\ delivered = <<>>
    /\ yamlDocs = <<>>
    /\ result = <<>>
    /\ pc = "loadAll"

(***************************************************************************)
(* parse (lines 167-192)                                                   *)
(***************************************************************************)
\* yamlDocs.unshift(doc)
PushDoc_Front(docs, doc) == <<doc>> \o docs

\* yamlDocs.push(doc)
PushDoc(docs, doc) == Append(docs, doc)

\* loadAll calls back with the next document: doc => yamlDocs.push(doc)
LoadAllCallback ==
    /\ pc = "loadAll"
    /\ pending # <<>>
    /\ yamlDocs' = PushDoc(yamlDocs, Head(pending))
    /\ delivered' = Append(delivered, Head(pending))
    /\ pending' = Tail(pending)
    /\ UNCHANGED <<text, result, pc>>

\* loadAll returns (line 189)
LoadAllReturn ==
    /\ pc = "loadAll"
    /\ pending = <<>>
    /\ pc' = "map"
    /\ UNCHANGED <<text, pending, delivered, yamlDocs, result>>

\* yamlDocs.map(doc => createJSONDocument(doc, startPositions, text)): the
\* next document is converted; a RangeError in it leaves parse.
MapCreateJSONDocument ==
    /\ pc = "map"
    /\ Len(result) < Len(yamlDocs)
    /\ LET r == createJSONDocument(yamlDocs[Len(result) + 1], getLineStartPositions(text), text)
       IN  IF r.threw
           THEN pc' = "threw" /\ result' = <<>>
           ELSE pc' = pc /\ result' = Append(result, r.doc)
    /\ UNCHANGED <<text, pending, delivered, yamlDocs>>

\* return new YAMLDocument(...) (line 191)
ParseReturn ==
    /\ pc = "map"
    /\ Len(result) = Len(yamlDocs)
    /\ pc' = "returned"
    /\ UNCHANGED <<text, pending, delivered, yamlDocs, result>>

Next == LoadAllCallback \/ LoadAllReturn \/ MapCreateJSONDocument \/ ParseReturn

Spec == Init /\ [][Next]_vars

(***************************************************************************)
(* Vocabulary of the properties.  result[i] was built from yamlDocs[i].    *)
(* Within one raw document every node has its own start offset, so the     *)
(* AST nodes built from a raw node are those at its offset.                *)
(***************************************************************************)
Built == 1..Len(result)

RawNodes(i, kind) ==
    {n \in {yamlDocs[i].nodes[j] : j \in 1..Len(yamlDocs[i].nodes)} : n.kind = kind}

AstNodes(i, type) ==
    {n \in {result[i].ast[j] : j \in 1..Len(result[i].ast)} : n.type = type}

Range(seq) == {seq[k] : k \in 1..Len(seq)}

Occurrences(seq, x) == Cardinality({k \in 1..Len(seq) : seq[k] = x})

Increasing(seq) == \A k \in 1..Len(seq) - 1 : seq[k] < seq[k + 1]

\* a "duplicate key" diagnostic whose text at its location begins with "<<"
IsMergeKeyDuplicate(e, str) ==
    /\ e.reason = "duplicate key"
    /\ LET at == Substring(str, e.mark.position, e.mark.position + e.mark.column)
       IN  Len(at) >= 2 /\ at[1] = "<" /\ at[2] = "<"

StructuralMessage == "Expected a YAML object, array or literal"

\* the diagnostics of a document that were forwarded from the collaborator
Forwarded(doc) == SelectSeq(doc.errors, LAMBDA e : e.message # StructuralMessage)

BooleanTokens ==
    {"y", "Y", "yes", "Yes", "YES", "n", "N", "no", "No", "NO",
     "on", "On", "ON", "off", "Off", "OFF"}

\* the node the classifier's type selects
SelectedBy(scalarType, n) ==
    CASE scalarType = "null" -> n.type = "null"
      [] scalarType = "bool" -> n.type = "boolean"
      [] scalarType = "int" -> n.type = "number" /\ n.isInteger
      [] scalarType = "float" -> n.type = "number" /\ ~n.isInteger
      [] scalarType = "string" -> n.type = "string"

\* C1: a merge-key duplicate ("duplicate key" whose text at its location
\* begins with "<<") is in neither the errors nor the warnings of its
\* document, whatever its isWarning flag.
C1_MergeKeyDuplicateDropped ==
    \A i \in Built : \A j \in 1..Len(yamlDocs[i].errors) :
        IsMergeKeyDuplicate(yamlDocs[i].errors[j], text)
            => /\ j \notin Range(result[i].errorsFrom)
               /\ j \notin Range(result[i].warningsFrom)
               /\ convertError(yamlDocs[i].errors[j]) \notin Range(result[i].warnings)

\* C2: every raw diagnostic that is not a merge-key duplicate is kept exactly
\* once over the two lists: among the warnings if its reason is "duplicate
\* key" or it is flagged a warning, among the errors otherwise; both lists
\* keep the collaborator's order.
C2_DiagnosticsPartitioned ==
    \A i \in Built :
        LET raw == yamlDocs[i].errors
            doc == result[i]
        IN  /\ \A j \in 1..Len(raw) :
                  ~IsMergeKeyDuplicate(raw[j], text)
                      => LET toWarnings == raw[j].reason = "duplicate key" \/ raw[j].isWarning
                         IN  /\ Occurrences(doc.warningsFrom, j) = (IF toWarnings THEN 1 ELSE 0)
                             /\ Occurrences(doc.errorsFrom, j) = (IF toWarnings THEN 0 ELSE 1)
            /\ Increasing(doc.errorsFrom) /\ Increasing(doc.warningsFrom)
            /\ Forwarded(doc) = [k \in 1..Len(doc.errorsFrom) |-> convertError(raw[doc.errorsFrom[k]])]
            /\ doc.warnings = [k \in 1..Len(doc.warningsFrom) |-> convertError(raw[doc.warningsFrom[k]])]

\* a document was built whose diagnostics went to both lists: a plain error
\* and an ordinary duplicate key
C2_Witness ==
    \E i \in Built :
        /\ Len(result[i].errorsFrom) = 1 /\ Len(result[i].warningsFrom) = 1
        /\ \E j \in 1..Len(yamlDocs[i].errors) :
              /\ yamlDocs[i].errors[j].reason = "duplicate key"
              /\ ~yamlDocs[i].errors[j].isWarning
              /\ ~IsMergeKeyDuplicate(yamlDocs[i].errors[j], text)

\* C3: a raw sequence of n >= 1 items whose last item is null becomes an
\* Array of exactly n - 1 items.
C3_TrailingNullItemDropped ==
    \A i \in Built : \A s \in RawNodes(i, "SEQ") :
        Len(s.items) >= 1 /\ s.items[Len(s.items)] = Absent
            => \A a \in AstNodes(i, "array") :
                  a.offset = s.startPosition => Len(a.items) = Len(s.items) - 1

\* C4: a raw mapping without a value becomes a Property whose value node is a
\* Null node at the mapping's start, as long as the mapping.
C4_OmittedValueSpansMapping ==
    \A i \in Built : \A m \in RawNodes(i, "MAPPING") :
        m.valueRef = Absent
            => \A p \in AstNodes(i, "property") :
                  p.offset = m.key.startPosition
                      => /\ p.valueNode # Absent
                         /\ LET v == result[i].ast[p.valueNode]
                            IN  /\ v.type = "null"
                                /\ v.offset = m.startPosition
                                /\ v.length = m.endPosition - m.startPosition

\* C5: a plain scalar whose text is one of the sixteen boolean tokens becomes
\* a Boolean node over the scalar's span, whatever type the classifier
\* reports; a scalar that is not plain becomes the node its reported type
\* selects.
C5_ScalarClassification ==
    \A i \in Built : \A s \in RawNodes(i, "SCALAR") :
        \A j \in 1..Len(result[i].ast) :
            LET n == result[i].ast[j]
            IN  n.offset = s.startPosition /\ n.type # "property"
                    => /\ n.length = s.endPosition - s.startPosition
                       /\ s.plainScalar /\ s.value \in BooleanTokens => n.type = "boolean"
                       /\ ~s.plainScalar => SelectedBy(s.scalarType, n)

\* a plain "OFF" that the classifier calls a string was built as a Boolean
C5_Witness ==
    /\ pc = "returned"
    /\ \E i \in Built :
          \E s \in RawNodes(i, "SCALAR") :
              /\ s.value = "OFF" /\ s.plainScalar /\ s.scalarType = "string"
              /\ \E n \in AstNodes(i, "boolean") : n.offset = s.startPosition

\* C6: a document's root is absent exactly when its errors hold the
\* structural error; that error is then the first of the errors, before
\* every forwarded diagnostic, and is located at the raw document's span.
C6_StructuralErrorIffNoRoot ==
    \A i \in Built :
        LET doc == result[i]
            top == yamlDocs[i].nodes[1]
            structural == {k \in 1..Len(doc.errors) : doc.errors[k].message = StructuralMessage}
        IN  /\ doc.root = Absent <=> structural # {}
            /\ structural \subseteq {1}
            /\ doc.root = Absent
                  => doc.errors[1].location = [start |-> top.startPosition, end |-> top.endPosition]

\* a document without a root was built from a raw document that starts past
\* offset 0 and carries a diagnostic that becomes an error
C6_Witness ==
    \E i \in Built :
        /\ result[i].root = Absent
        /\ Len(result[i].errors) = 2
        /\ yamlDocs[i].nodes[1].startPosition > 0

\* C7: every node's parent is the node that holds it: the root has none, a
\* property's parent is the object that lists it, a key's and a value's
\* parent is their property, an item's parent is the array that lists it.
C7_ParentIsHolder ==
    \A i \in Built :
        LET ast == result[i].ast
        IN  /\ result[i].root # Absent => ast[result[i].root].parent = NoParent
            /\ \A j \in 1..Len(ast) :
                  /\ ast[j].type = "object"
                        => \A p \in Range(ast[j].properties) : p # Absent => ast[p].parent = j
                  /\ ast[j].type = "array"
                        => \A n \in Range(ast[j].items) : n # Absent => ast[n].parent = j
                  /\ ast[j].type = "property"
                        => /\ ast[j].keyNode # Absent => ast[ast[j].keyNode].parent = j
                           /\ ast[j].valueNode # Absent => ast[ast[j].valueNode].parent = j

\* C8: parse returns one document per delivered raw document, in delivery
\* order, each built from its own raw document: its root is that document's
\* top node, and its diagnostics are exactly those of that document.
C8_OneDocumentPerRawDocument ==
    pc = "returned"
        => /\ Len(result) = Len(delivered)
           /\ \A i \in 1..Len(delivered) :
                 LET doc == result[i]
                     raw == delivered[i]
                     own == {convertError(raw.errors[j]) : j \in 1..Len(raw.errors)}
                 IN  /\ doc.root # Absent
                           => doc.ast[doc.root].offset = raw.nodes[1].startPosition
                     /\ doc.root = Absent
                           => doc.errors[1].location.start = raw.nodes[1].startPosition
                     /\ Range(Forwarded(doc)) \cup Range(doc.warnings) \subseteq own
                     /\ \A j \in 1..Len(raw.errors) :
                           ~IsMergeKeyDuplicate(raw.errors[j], text)
                               => convertError(raw.errors[j])
                                     \in Range(Forwarded(doc)) \cup Range(doc.warnings)
                     /\ \A k \in 1..Len(delivered) : \A j \in 1..Len(delivered[k].errors) :
                           k # i => convertError(delivered[k].errors[j])
                                       \notin Range(Forwarded(doc)) \cup Range(doc.warnings)

\* a stream of two documents was returned, the second with a diagnostic
C8_Witness ==
    /\ pc = "returned"
    /\ Len(result) = 2
    /\ Len(result[1].errors) + Len(result[1].warnings) = 0
    /\ Len(result[2].warnings) = 1

\* C9: a raw map of N entries becomes an Object over the map's span with N
\* properties in the entries' order, each a Property whose key node is a
\* String holding the entry's key text and whose value node is present.
C9_MapBecomesObject ==
    \A i \in Built :
        /\ yamlDocs[i].nodes[1].kind = "MAP"
              => result[i].root # Absent /\ result[i].ast[result[i].root].type = "object"
        /\ \A m \in RawNodes(i, "MAP") : \A o \in AstNodes(i, "object") :
              o.offset = m.startPosition
                  => /\ o.length = m.endPosition - m.startPosition
                     /\ Len(o.properties) = Len(m.mappings)
                     /\ \A k \in 1..Len(m.mappings) :
                           /\ o.properties[k] # Absent
                           /\ LET p == result[i].ast[o.properties[k]]
                                  entry == yamlDocs[i].nodes[m.mappings[k]]
                              IN  /\ p.type = "property"
                                  /\ p.keyNode # Absent
                                  /\ result[i].ast[p.keyNode].type = "string"
                                  /\ result[i].ast[p.keyNode].value = entry.key.value
                                  /\ result[i].ast[p.keyNode].offset = entry.key.startPosition
                                  /\ p.valueNode # Absent

\* an Object of two properties was built, the second from an entry whose key
\* is not a scalar and whose value is omitted
C9_Witness ==
    \E i \in Built :
        /\ yamlDocs[i].nodes[1].kind = "MAP"
        /\ Len(yamlDocs[i].nodes[1].mappings) = 2
        /\ yamlDocs[i].nodes[yamlDocs[i].nodes[1].mappings[2]].key.kind = "SEQ"
        /\ yamlDocs[i].nodes[yamlDocs[i].nodes[1].mappings[2]].valueRef = Absent
        /\ Len(result[i].ast[result[i].root].properties) = 2

\* C10: the builder returns for every raw document, also one whose alias
\* resolves to a node that encloses the alias; an alias that resolves to
\* nothing becomes a Null node over the alias's own span.
C10_BuilderReturns ==
    /\ pc # "threw"
    /\ \A i \in Built : \A r \in RawNodes(i, "ANCHOR_REF") :
          r.target = Absent
              => \E n \in AstNodes(i, "null") :
                    n.offset = r.startPosition /\ n.length = r.endPosition - r.startPosition

====
